---- MODULE Spec2Model ----
(***************************************************************************)
(* Model of unix/uxmisc.c: expand_envstrings, ConvertV70LogFileToV71,      *)
(* make_dir_and_check_ours, make_dir_path and mkdir_path.                  *)
(*                                                                         *)
(* C strings are sequences of one-character strings; indices i, j and pos  *)
(* are 0-based as in the source.  A buffer is a sequence of cells, each a  *)
(* character, NUL or UNINIT (allocated, never written).                    *)
(***************************************************************************)
EXTENDS Integers, Sequences, FiniteSets, TLC

VARIABLES
    env,        \* the process environment: name -> value
    pc,         \* position of the running call
    str,        \* expand_envstrings: the argument str
    pass,       \* expand_envstrings: pass
    i,          \* expand_envstrings / ConvertV70LogFileToV71: i
    j,          \* expand_envstrings / ConvertV70LogFileToV71: j
    skipnext,   \* expand_envstrings: skipnext
    dest,       \* expand_envstrings: dest; ConvertV70LogFileToV71: newpath
    written,    \* indices of dest / newpath stored to so far in this call
    len0,       \* j at the end of pass 0 (dest is smalloc(len0 + 1))
    skip0,      \* skipnext at the end of pass 0
    path,       \* fp->path, or the path argument of the directory calls
    result,     \* the string a finished call returns or leaves in fp->path
    fs,         \* the filesystem: path components -> node
    pos,        \* make_dir_path: pos
    calls,      \* the mkdir calls issued so far: <<prefix, outcome>>
    ret,        \* the value a directory call returns
    fn,         \* mkdir_path: fn->path
    st,         \* make_dir_and_check_ours: what stat() stored, or <<>>
    mode,       \* make_dir_path: mode
    round,      \* how many times in a row make_dir_path has been called
    fs0         \* the filesystem when the first directory call started

strVars == <<str, pass, i, j, skipnext, dest, written, len0, skip0, result>>
dirVars == <<fs, pos, calls, ret, fn, st, mode, round, fs0>>
vars == <<env, pc, path, strVars, dirVars>>

-----------------------------------------------------------------------------
(* Bounds *)

MaxLen == 4        \* longest enumerated input of the string routines
MaxPath == 5       \* longest enumerated path of the directory routines

-----------------------------------------------------------------------------
(* Characters and C strings *)

NUL == "NUL"
UNINIT == "UNINIT"

Letters == {"A", "H", "O", "M", "E", "F", "a", "b", "c", "h", "x"}
Digits == {"1"}

isalpha(c) == c \in Letters
isalnum(c) == c \in Letters \cup Digits

\* str[k] of a NUL-terminated string held as a sequence
Ch(s, k) == IF k < Len(s) THEN s[k + 1] ELSE NUL

\* strlen of a buffer: the index of its first NUL (Len(d) when there is none)
RECURSIVE strlenFrom(_, _)
strlenFrom(d, k) ==
    IF k >= Len(d) \/ d[k + 1] = NUL THEN k ELSE strlenFrom(d, k + 1)

strlen(d) == strlenFrom(d, 0)

\* the C string a buffer holds
CStr(d) == SubSeq(d, 1, strlen(d))

\* strchr(&s[p], c): the index of the first c at or after p, -1 for NULL
RECURSIVE strchr(_, _, _)
strchr(s, p, c) ==
    IF p >= Len(s) THEN -1
    ELSE IF s[p + 1] = c THEN p
    ELSE strchr(s, p + 1, c)

\* smalloc(n): n cells, none of them initialised
smalloc(n) == [k \in 1..n |-> UNINIT]

\* a store of the cells of v at d[at], d[at+1], ...; a store past the end of
\* the allocation leaves the buffer as it is (the index is kept in written)
RECURSIVE Store(_, _, _)
Store(d, at, v) ==
    IF v = <<>> THEN d
    ELSE Store(IF at < Len(d) THEN [d EXCEPT ![at + 1] = Head(v)] ELSE d,
               at + 1, Tail(v))

StoreIdx(at, v) == {at + k : k \in 0..(Len(v) - 1)}

\* getenv: <<value>> when name is set, <<>> for NULL
getenv(e, name) == IF name \in DOMAIN e THEN <<e[name]>> ELSE <<>>

HOME == <<"H", "O", "M", "E">>

-----------------------------------------------------------------------------
(* expand_envstrings: the body of the scanning loop, on a record           *)
(* [i, j, skipnext, dest, written] of the locals it changes                *)

Local(i_, j_, skipnext_, dest_, written_) ==
    [i |-> i_, j |-> j_, skipnext |-> skipnext_, dest |-> dest_,
     written |-> written_]

\* IsEscape with the test for '~' left out
IsEscape_DollarOnly(s, k) == Ch(s, k) = "\\" /\ Ch(s, k + 1) = "$"

\* line 382: a backslash that escapes the next character
IsEscape(s, k) ==
    Ch(s, k) = "\\" /\ (Ch(s, k + 1) = "$" \/ Ch(s, k + 1) = "~")

\* Subst with the length pass not counting the value
Subst_Uncounted(p, l, val) ==
    IF val = <<>> \/ p # 1 THEN l
    ELSE [l EXCEPT !.dest = Store(l.dest, l.j, val[1] \o <<NUL>>),
                   !.written = @ \cup StoreIdx(l.j, val[1] \o <<NUL>>),
                   !.j = @ + Len(val[1])]

\* lines 403 and 409: j += (pass==1) ? sprintf(&dest[j], "%s", tmps) : strlen(tmps)
Subst(p, l, val) ==
    IF val = <<>> THEN l
    ELSE IF p = 1
         THEN [l EXCEPT !.dest = Store(l.dest, l.j, val[1] \o <<NUL>>),
                        !.written = @ \cup StoreIdx(l.j, val[1] \o <<NUL>>),
                        !.j = @ + Len(val[1])]
         ELSE [l EXCEPT !.j = @ + Len(val[1])]

\* NameRun with isalpha in place of isalnum
RECURSIVE NameRun_Alpha(_, _, _)
NameRun_Alpha(s, k, elen) ==
    IF isalpha(Ch(s, k + elen + 1)) \/ Ch(s, k + elen + 1) = "_"
    THEN NameRun_Alpha(s, k, elen + 1)
    ELSE elen

\* line 395: while (isalnum(str[i+elen+1]) || str[i+elen+1]=='_') elen++
RECURSIVE NameRun(_, _, _)
NameRun(s, k, elen) ==
    IF isalnum(Ch(s, k + elen + 1)) \/ Ch(s, k + elen + 1) = "_"
    THEN NameRun(s, k, elen + 1)
    ELSE elen

\* lines 386-392: ${name}
BracedRef(s, e, p, l) ==
    LET tmps == strchr(s, l.i + 2, "}")
        elen == tmps - (l.i + 2)
        varname == SubSeq(s, l.i + 3, l.i + 2 + elen)
        l2 == [l EXCEPT !.i = @ + elen + 2]
    IN  IF elen > 0 THEN Subst(p, l2, getenv(e, varname)) ELSE l2

\* lines 393-397: $name
BareRef(s, e, p, l) ==
    LET elen == NameRun(s, l.i, 1)
        varname == SubSeq(s, l.i + 2, l.i + 1 + elen)
        l2 == [l EXCEPT !.i = @ + elen]
    IN  IF elen > 0 THEN Subst(p, l2, getenv(e, varname)) ELSE l2

\* lines 398-400: elen = -1, and nothing is stored
NoRef(l) == l

\* lines 384-406
DollarBranch(s, e, p, l) ==
    IF Ch(s, l.i + 1) = "{" /\ strchr(s, l.i + 2, "}") # -1
    THEN BracedRef(s, e, p, l)
    ELSE IF isalpha(Ch(s, l.i + 1)) \/ Ch(s, l.i + 1) = "_"
    THEN BareRef(s, e, p, l)
    ELSE NoRef(l)

\* TildeBranch expanding '~' at the start of the string only
TildeBranch_Leading(e, p, l) ==
    IF l.i = 0 THEN Subst(p, l, getenv(e, HOME))
    ELSE [l EXCEPT !.dest = IF p = 1 THEN Store(@, l.j, <<"~">>) ELSE @,
                   !.written = IF p = 1 THEN @ \cup {l.j} ELSE @,
                   !.j = @ + 1]

\* lines 407-410
TildeBranch(e, p, l) == Subst(p, l, getenv(e, HOME))

\* lines 411-415
CopyBranch(s, p, l) ==
    [l EXCEPT !.dest = IF p = 1 THEN Store(@, l.j, <<Ch(s, l.i)>>) ELSE @,
              !.written = IF p = 1 THEN @ \cup {l.j} ELSE @,
              !.j = @ + 1,
              !.skipnext = 0]

\* lines 382-415, and the i++ of line 381
ScanBody(s, e, p, l) ==
    LET l2 == IF IsEscape(s, l.i) THEN [l EXCEPT !.skipnext = 1]
              ELSE IF l.skipnext = 0 /\ Ch(s, l.i) = "$"
                   THEN DollarBranch(s, e, p, l)
              ELSE IF l.skipnext = 0 /\ Ch(s, l.i) = "~"
                   THEN TildeBranch(e, p, l)
              ELSE CopyBranch(s, p, l)
    IN  [l2 EXCEPT !.i = @ + 1]

\* line 381: one pass of the for loop, run to its end
RECURSIVE ScanPass(_, _, _, _)
ScanPass(s, e, p, l) ==
    IF Ch(s, l.i) = NUL THEN l ELSE ScanPass(s, e, p, ScanBody(s, e, p, l))

\* lines 380-422: the string expand_envstrings returns
expand_envstrings(s, e) ==
    LET a == ScanPass(s, e, 0, Local(0, 0, 0, <<>>, {}))
        b == ScanPass(s, e, 1, Local(0, 0, a.skipnext, smalloc(a.j + 1), {}))
    IN  CStr(Store(b.dest, b.j, <<NUL>>))

-----------------------------------------------------------------------------
(* ConvertV70LogFileToV71 *)

IsSpecial(c) == c = "$" \/ c = "~"

\* line 433: the number of '$' and '~' in the first k characters
RECURSIVE CountSpecial(_, _)
CountSpecial(s, k) ==
    IF k = 0 THEN 0
    ELSE CountSpecial(s, k - 1) + (IF IsSpecial(s[k]) THEN 1 ELSE 0)

\* line 436: the size of newpath
NewpathSize(n, k) == k + n + 1

\* lines 438-442: the stores of one iteration of the copy loop
ConvBody(s, l) ==
    LET sp == IsSpecial(Ch(s, l.i))
        j2 == IF sp THEN l.j + 1 ELSE l.j
        d1 == IF sp THEN Store(l.dest, l.i + l.j, <<"\\">>) ELSE l.dest
        w1 == IF sp THEN l.written \cup {l.i + l.j} ELSE l.written
    IN  [l EXCEPT !.dest = Store(d1, l.i + j2, <<Ch(s, l.i)>>),
                  !.written = w1 \cup {l.i + j2},
                  !.j = j2,
                  !.i = @ + 1]

\* line 444: the index the terminator is stored at
TermIdx(n, k) == n + k + 1

\* what a read of newpath as a C string can see: the cells of the
\* allocation, a cell never stored to holding any byte g, followed by the
\* bytes stored past its end
Visible(d, w, g) ==
    [k \in 1..Len(d) |-> IF d[k] = UNINIT THEN g ELSE d[k]]
        \o (IF \E x \in w : x >= Len(d) THEN <<NUL>> ELSE <<>>)

\* a byte an uninitialised cell can hold
Garbage == {NUL, "x", "$"}

-----------------------------------------------------------------------------
(* The inputs of the string routines *)

Alphabet == {"$", "~", "\\", "{", "}", "A", "1"}

Samples ==
    { <<"\\", "$", "H", "O", "M", "E">>,
      <<"$", "H", "O", "M", "E">>,
      <<"a", "~", "b", "~", "c">>,
      <<"$", "{", "F", "O", "O">>,
      <<"$", "{", "F", "O", "O", "}">>,
      <<"$", "1", "a", "b", "c">>,
      <<"$", "_", "A", "/", "$", "{", "A", "}", "_">> }

Strings(n) == UNION {[1..k -> Alphabet] : k \in 0..n}

Inputs == Strings(MaxLen) \cup Samples

EnvNone == <<>>
EnvPlain == (HOME :> <<"/", "h">>) @@ (<<"A">> :> <<"x">>) @@ (<<"_", "A">> :> <<"u">>)
EnvTricky == (HOME :> <<"$", "A">>) @@ (<<"A">> :> <<"~", "\\">>)
                @@ (<<"A", "1">> :> <<"{">>) @@ (<<"~">> :> <<"t">>)

Envs == {EnvNone, EnvPlain, EnvTricky}

-----------------------------------------------------------------------------
(* The string routines as steps *)

Locals == Local(i, j, skipnext, dest, written)

SetLocals(l) ==
    /\ i' = l.i
    /\ j' = l.j
    /\ skipnext' = l.skipnext
    /\ dest' = l.dest
    /\ written' = l.written

\* lines 372-381: entry, pass = 0, i = 0, j = 0
ExpandCall ==
    /\ pc = "idle"
    /\ \E s \in Inputs : str' = s
    /\ pc' = "scan"
    /\ pass' = 0
    /\ SetLocals(Local(0, 0, 0, <<>>, {}))
    /\ len0' = -1
    /\ skip0' = -1
    /\ result' = <<>>
    /\ UNCHANGED <<env, path, dirVars>>

\* lines 381-416: one iteration of the inner for loop
ExpandStep ==
    /\ pc = "scan"
    /\ Ch(str, i) # NUL
    /\ SetLocals(ScanBody(str, env, pass, Locals))
    /\ UNCHANGED <<env, pc, str, pass, len0, skip0, result, path, dirVars>>

\* lines 417, 380-381: the end of the length pass
ExpandAlloc ==
    /\ pc = "scan"
    /\ Ch(str, i) = NUL
    /\ pass = 0
    /\ len0' = j
    /\ skip0' = skipnext
    /\ pass' = 1
    /\ SetLocals(Local(0, 0, skipnext, smalloc(j + 1), {}))
    /\ UNCHANGED <<env, pc, str, result, path, dirVars>>

\* lines 419-422: the end of the copy pass, dest[j] = '\0'
ExpandReturn ==
    /\ pc = "scan"
    /\ Ch(str, i) = NUL
    /\ pass = 1
    /\ pass' = 2
    /\ dest' = Store(dest, j, <<NUL>>)
    /\ written' = written \cup {j}
    /\ result' = CStr(dest')
    /\ pc' = "expanded"
    /\ UNCHANGED <<env, str, i, j, skipnext, len0, skip0, path, dirVars>>

\* lines 431-436: entry, the counting loop and the allocation
ConvertCall ==
    /\ pc = "idle"
    /\ \E s \in Inputs :
        /\ path' = s
        /\ IF CountSpecial(s, Len(s)) # 0
           THEN /\ pc' = "convert"
                /\ dest' = smalloc(NewpathSize(Len(s), CountSpecial(s, Len(s))))
                /\ result' = <<>>
           ELSE /\ pc' = "converted"
                /\ dest' = <<>>
                /\ result' = s
    /\ i' = 0
    /\ j' = 0
    /\ written' = {}
    /\ UNCHANGED <<env, str, pass, skipnext, len0, skip0, dirVars>>

\* lines 437-443: one iteration of the copy loop
ConvertStep ==
    /\ pc = "convert"
    /\ Ch(path, i) # NUL
    /\ SetLocals(ConvBody(path, Locals))
    /\ UNCHANGED <<env, pc, str, pass, len0, skip0, result, path, dirVars>>

\* lines 444-448: the terminator, and fp->path = newpath
ConvertReturn ==
    /\ pc = "convert"
    /\ Ch(path, i) = NUL
    /\ dest' = Store(dest, TermIdx(i, j), <<NUL>>)
    /\ written' = written \cup {TermIdx(i, j)}
    /\ \E g \in Garbage : result' = CStr(Visible(dest', written', g))
    /\ pc' = "converted"
    /\ UNCHANGED <<env, str, pass, i, j, skipnext, len0, skip0, path, dirVars>>

\* the caller takes the result; the next call starts from scratch
StrDone ==
    /\ pc \in {"expanded", "converted"}
    /\ pc' = "idle"
    /\ str' = <<>>
    /\ path' = <<>>
    /\ pass' = 0
    /\ SetLocals(Local(0, 0, 0, <<>>, {}))
    /\ len0' = -1
    /\ skip0' = -1
    /\ result' = <<>>
    /\ UNCHANGED <<env, dirVars>>

StrIdle ==
    /\ pc = "idle"
    /\ str = <<>>
    /\ path = <<>>
    /\ pass = 0
    /\ i = 0
    /\ j = 0
    /\ skipnext = 0
    /\ dest = <<>>
    /\ written = {}
    /\ len0 = -1
    /\ skip0 = -1
    /\ result = <<>>

DirIdle ==
    /\ fs = <<>>
    /\ pos = 0
    /\ calls = <<>>
    /\ ret = <<>>
    /\ fn = <<>>
    /\ st = <<>>
    /\ mode = 0
    /\ round = 0
    /\ fs0 = <<>>

InitStr ==
    /\ env \in Envs
    /\ StrIdle
    /\ DirIdle

NextStr ==
    \/ ExpandCall
    \/ ExpandStep
    \/ ExpandAlloc
    \/ ExpandReturn
    \/ ConvertCall
    \/ ConvertStep
    \/ ConvertReturn
    \/ StrDone

SpecStr == InitStr /\ [][NextStr]_vars

-----------------------------------------------------------------------------
(* The filesystem the directory routines act on.  A path resolves to its   *)
(* list of component names (relative and absolute paths from the same      *)
(* base directory); fs maps the lists that exist to a node.                *)

Oct(a, b, c) == 64 * a + 8 * b + c

RECURSIVE BitAnd(_, _)
BitAnd(a, b) ==
    IF a = 0 \/ b = 0 THEN 0
    ELSE (a % 2) * (b % 2) + 2 * BitAnd(a \div 2, b \div 2)

MyUid == 1000                  \* getuid()
OtherUid == 2000               \* some other user
Umask == Oct(0, 2, 2)

Node(k, u, m) == [kind |-> k, uid |-> u, mode |-> m]

\* the component names of a path
RECURSIVE CompsFrom(_, _, _, _)
CompsFrom(p, k, acc, cur) ==
    IF k > Len(p) THEN (IF cur = <<>> THEN acc ELSE Append(acc, cur))
    ELSE IF p[k] = "/"
         THEN CompsFrom(p, k + 1, IF cur = <<>> THEN acc ELSE Append(acc, cur), <<>>)
         ELSE CompsFrom(p, k + 1, acc, Append(cur, p[k]))

Comps(p) == CompsFrom(p, 1, <<>>, <<>>)

TrailingSlash(p) == p # <<>> /\ p[Len(p)] = "/"

\* the permission bits that apply to the caller
Bits(n) == IF n.uid = MyUid THEN (n.mode \div 64) % 8 ELSE n.mode % 8
Searchable(n) == Bits(n) % 2 = 1
Writable(n) == Searchable(n) /\ (Bits(n) \div 2) % 2 = 1

\* the error of walking through the k-th proper ancestor, "OK" for none
AncErrAt(f, c, k) ==
    LET a == SubSeq(c, 1, k)
    IN  IF a \notin DOMAIN f THEN "ENOENT"
        ELSE IF f[a].kind = "dangling" THEN "ENOENT"
        ELSE IF f[a].kind = "file" THEN "ENOTDIR"
        ELSE IF ~Searchable(f[a]) THEN "EACCES"
        ELSE "OK"

RECURSIVE AncErrFrom(_, _, _)
AncErrFrom(f, c, k) ==
    IF k >= Len(c) THEN "OK"
    ELSE IF AncErrAt(f, c, k) # "OK" THEN AncErrAt(f, c, k)
    ELSE AncErrFrom(f, c, k + 1)

AncErr(f, c) == AncErrFrom(f, c, 0)

\* mkdir(p, m): the errno ("OK" for success) and the filesystem afterwards
sys_mkdir(f, p, m) ==
    LET c == Comps(p)
        e == IF p = <<>> THEN "ENOENT"
             ELSE IF AncErr(f, c) # "OK" THEN AncErr(f, c)
             ELSE IF c \in DOMAIN f THEN "EEXIST"
             ELSE IF ~Writable(f[SubSeq(c, 1, Len(c) - 1)]) THEN "EACCES"
             ELSE "OK"
    IN  [err |-> e,
         fs |-> IF e = "OK"
                THEN (c :> Node("dir", MyUid, BitAnd(m, Oct(7, 7, 7) - Umask))) @@ f
                ELSE f]

\* stat(p, &st): the errno, and st_uid and st_mode on success
sys_stat(f, p) ==
    LET c == Comps(p)
        e == IF p = <<>> THEN "ENOENT"
             ELSE IF AncErr(f, c) # "OK" THEN AncErr(f, c)
             ELSE IF c \notin DOMAIN f THEN "ENOENT"
             ELSE IF f[c].kind = "dangling" THEN "ENOENT"
             ELSE IF f[c].kind # "dir" /\ TrailingSlash(p) THEN "ENOTDIR"
             ELSE "OK"
    IN  [err |-> e,
         uid |-> IF e = "OK" THEN f[c].uid ELSE 0,
         mode |-> IF e = "OK" THEN f[c].mode ELSE 0]

\* access(p, F_OK) == 0
sys_access(f, p) == sys_stat(f, p).err = "OK"

-----------------------------------------------------------------------------
(* Values the directory routines return *)

RetNull == [kind |-> "NULL", path |-> <<>>, err |-> "", num |-> 0]
RetEmpty == [kind |-> "EMPTY", path |-> <<>>, err |-> "", num |-> 0]
RetMkdir(p, e) == [kind |-> "mkdir", path |-> p, err |-> e, num |-> 0]
RetStat(p, e) == [kind |-> "stat", path |-> p, err |-> e, num |-> 0]
RetOwned(p, u) == [kind |-> "owned", path |-> p, err |-> "", num |-> u]
RetPerm(p, m) == [kind |-> "perm", path |-> p, err |-> "", num |-> m]
NoRet == [kind |-> "none", path |-> <<>>, err |-> "", num |-> 0]

\* MkdirFailed without the EEXIST exception
MkdirFailed_Strict(e) == e # "OK"

\* MkdirFailed ignoring every failure
MkdirFailed_Never(e) == FALSE

\* lines 304 and 337: mkdir(...) < 0 && errno != EEXIST
MkdirFailed(e) == e # "OK" /\ e # "EEXIST"

-----------------------------------------------------------------------------
(* make_dir_and_check_ours *)

\* CheckOurs without the comparison of st_uid with getuid()
CheckOurs_NoUid(p, s) ==
    IF s.err # "OK" THEN RetStat(p, s.err)
    ELSE IF s.mode % Oct(1, 0, 0) # 0 THEN RetPerm(p, s.mode % (8 * Oct(1, 0, 0)))
    ELSE RetNull

\* lines 315-324: what is returned for the result s of stat
CheckOurs(p, s) ==
    IF s.err # "OK" THEN RetStat(p, s.err)
    ELSE IF s.uid # MyUid THEN RetOwned(p, s.uid)
    ELSE IF s.mode % Oct(1, 0, 0) # 0 THEN RetPerm(p, s.mode % (8 * Oct(1, 0, 0)))
    ELSE RetNull


\* lines 296-304: entry and mkdir(dirname, 0700)
CheckOursMkdir ==
    /\ pc = "ours"
    /\ LET r == sys_mkdir(fs, path, Oct(7, 0, 0))
       IN  /\ fs' = r.fs
           /\ calls' = Append(calls, [prefix |-> path, err |-> r.err])
           /\ IF MkdirFailed(r.err)
              THEN /\ ret' = RetMkdir(path, r.err)
                   /\ pc' = "ours_done"
              ELSE /\ ret' = ret
                   /\ pc' = "ours_stat"
    /\ UNCHANGED <<env, path, strVars, pos, fn, st, mode, round, fs0>>

\* lines 315-324: stat(dirname, &st) and the checks on st
CheckOursStat ==
    /\ pc = "ours_stat"
    /\ st' = <<sys_stat(fs, path)>>
    /\ ret' = CheckOurs(path, st'[1])
    /\ pc' = "ours_done"
    /\ UNCHANGED <<env, path, strVars, fs, pos, calls, fn, mode, round, fs0>>

-----------------------------------------------------------------------------
(* make_dir_path *)

\* strcspn(path + k, "/")
RECURSIVE strcspn(_, _)
strcspn(p, k) == IF Ch(p, k) = NUL \/ Ch(p, k) = "/" THEN 0 ELSE 1 + strcspn(p, k + 1)

\* strspn(path + k, "/")
RECURSIVE strspn(_, _)
strspn(p, k) == IF Ch(p, k) = "/" THEN 1 + strspn(p, k + 1) ELSE 0

\* lines 332-349: one iteration of the while loop, on a record
\* [fs, pos, calls, ret, done] 
MdpBody(p, m, l) ==
    LET pos1 == l.pos + strcspn(p, l.pos)
        prefix == SubSeq(p, 1, pos1)
        r == sys_mkdir(l.fs, prefix, m)
        l1 == IF pos1 > 0
              THEN [l EXCEPT !.fs = r.fs,
                             !.calls = Append(@, [prefix |-> prefix, err |-> r.err])]
              ELSE l
    IN  IF pos1 > 0 /\ MkdirFailed(r.err)
        THEN [l1 EXCEPT !.pos = pos1, !.ret = RetMkdir(prefix, r.err), !.done = TRUE]
        ELSE IF Ch(p, pos1) = NUL
        THEN [l1 EXCEPT !.pos = pos1, !.ret = RetNull, !.done = TRUE]
        ELSE [l1 EXCEPT !.pos = pos1 + strspn(p, pos1)]

\* lines 327-351: the whole call: what it returns and the filesystem it leaves
RECURSIVE MdpRun(_, _, _)
MdpRun(p, m, l) == IF l.done THEN l ELSE MdpRun(p, m, MdpBody(p, m, l))

make_dir_path(f, p, m) ==
    MdpRun(p, m, [fs |-> f, pos |-> 0, calls |-> <<>>, ret |-> NoRet, done |-> FALSE])

MakeDirPathStep ==
    /\ pc \in {"mdp", "mp_mdp"}
    /\ LET l == MdpBody(path, mode,
                        [fs |-> fs, pos |-> pos, calls |-> calls, ret |-> ret,
                         done |-> FALSE])
       IN  /\ fs' = l.fs
           /\ pos' = l.pos
           /\ calls' = l.calls
           /\ ret' = l.ret
           /\ pc' = IF ~l.done THEN pc
                    ELSE IF pc = "mdp" THEN "mdp_done" ELSE "mp_done"
    /\ UNCHANGED <<env, path, strVars, fn, st, mode, round, fs0>>

\* the same call made again on what the first call left
MakeDirPathAgain ==
    /\ pc = "mdp_done"
    /\ round = 1
    /\ ret = RetNull
    /\ round' = 2
    /\ pos' = 0
    /\ calls' = <<>>
    /\ ret' = NoRet
    /\ pc' = "mdp"
    /\ UNCHANGED <<env, path, strVars, fs, fn, st, mode, fs0>>

-----------------------------------------------------------------------------
(* mkdir_path *)

\* strrchr(p, '/'): the index of the last '/', -1 for NULL
RECURSIVE strrchrFrom(_, _)
strrchrFrom(p, k) ==
    IF k < 0 THEN -1 ELSE IF p[k + 1] = "/" THEN k ELSE strrchrFrom(p, k - 1)

strrchr(p) == strrchrFrom(p, Len(p) - 1)

\* line 357: dupprintf("%.*s", pos - fn->path, fn->path)
Folderpath(p) == SubSeq(p, 1, strrchr(p))

\* lines 356-358: make_dir_path is called
Delegates(f, p) == strrchr(p) # -1 /\ ~sys_access(f, Folderpath(p))

-----------------------------------------------------------------------------
(* The inputs of the directory routines *)

PathAlphabet == {"/", "a"}

Paths == UNION {[1..k -> PathAlphabet] : k \in 0..MaxPath}

A1 == << <<"a">> >>
A2 == << <<"a">>, <<"a">> >>
A3 == << <<"a">>, <<"a">>, <<"a">> >>

Root == (<< >> :> Node("dir", MyUid, Oct(7, 5, 5)))

DirNodes ==
    { Node("dir", MyUid, Oct(7, 0, 0)), Node("dir", MyUid, Oct(7, 5, 5)),
      Node("dir", OtherUid, Oct(7, 5, 5)), Node("dir", OtherUid, Oct(7, 7, 7)) }

OtherNodes ==
    { Node("file", MyUid, Oct(6, 0, 0)), Node("dangling", MyUid, Oct(7, 7, 7)) }

\* the filesystems a call can find: a node exists only inside a directory
InitFS ==
    {Root}
    \cup {(A1 :> n) @@ Root : n \in DirNodes \cup OtherNodes}
    \cup {(A2 :> m) @@ (A1 :> n) @@ Root :
            n \in DirNodes, m \in DirNodes \cup OtherNodes}
    \cup {(A3 :> Node("dir", MyUid, Oct(7, 0, 0))) @@ (A2 :> m) @@ (A1 :> n) @@ Root :
            n \in DirNodes, m \in DirNodes}

-----------------------------------------------------------------------------
(* The directory routines as steps *)

CheckOursCall ==
    /\ pc = "idle"
    /\ \E d \in Paths : path' = d
    /\ pc' = "ours"
    /\ UNCHANGED <<env, strVars, dirVars>>

\* lines 327-330: entry, pos = 0
MakeDirPathCall ==
    /\ pc = "idle"
    /\ \E d \in Paths : path' = d
    /\ \E m \in {Oct(7, 0, 0), Oct(7, 7, 7)} : mode' = m
    /\ pos' = 0
    /\ round' = 1
    /\ pc' = "mdp"
    /\ UNCHANGED <<env, strVars, fs, calls, ret, fn, st, fs0>>

\* lines 353-370: the branches of mkdir_path up to the call of make_dir_path
MkdirPathCall ==
    /\ pc = "idle"
    /\ \E f \in Paths :
        /\ fn' = <<f>>
        /\ IF Delegates(fs, f)
           THEN /\ path' = Folderpath(f)
                /\ mode' = Oct(7, 7, 7)
                /\ ret' = ret
                /\ pc' = "mp_mdp"
           ELSE /\ path' = path
                /\ mode' = mode
                /\ ret' = RetEmpty
                /\ pc' = "mp_done"
    /\ pos' = 0
    /\ UNCHANGED <<env, strVars, fs, calls, st, round, fs0>>

InitDir ==
    /\ env = EnvNone
    /\ StrIdle
    /\ fs \in InitFS
    /\ fs0 = fs
    /\ pos = 0
    /\ calls = <<>>
    /\ ret = NoRet
    /\ fn = <<>>
    /\ st = <<>>
    /\ mode = 0
    /\ round = 0

NextDir ==
    \/ CheckOursCall
    \/ CheckOursMkdir
    \/ CheckOursStat
    \/ MakeDirPathCall
    \/ MakeDirPathStep
    \/ MakeDirPathAgain
    \/ MkdirPathCall

SpecDir == InitDir /\ [][NextDir]_vars

-----------------------------------------------------------------------------
(* Properties of the directory routines, checked under SpecDir *)

Tolerated(e) == e \in {"OK", "EEXIST"}

\* the lengths of the slash-delimited non-empty prefixes of p
PrefixLens(p) ==
    {n \in 1..Len(p) : (n = Len(p) \/ p[n + 1] = "/") /\ (p[n] # "/" \/ n = Len(p))}

\* the k-th smallest member of a set of numbers
Kth(S, k) == CHOOSE x \in S : Cardinality({y \in S : y <= x}) = k

IsDir(f, p) == Comps(p) \in DOMAIN f /\ f[Comps(p)].kind = "dir"

\* C2: make_dir_and_check_ours runs stat and the checks after mkdir succeeded
\* and after mkdir failed with EEXIST; it returns NULL only for a directory
\* entry owned by the caller with no group/other bit; a foreign uid gives
\* the "owned by" error, a group/other bit on our own entry the "permissions"
\* error; any other mkdir failure returns the mkdir error without a stat.
C2_CheckedAfterMkdir ==
    pc = "ours_done" =>
        /\ Len(calls) = 1
        /\ calls[1].prefix = path
        /\ Tolerated(calls[1].err) =>
              /\ st # <<>>
              /\ st[1].err = "OK" =>
                    /\ st[1].uid = fs[Comps(path)].uid
                    /\ st[1].mode = fs[Comps(path)].mode
        /\ ~Tolerated(calls[1].err) => st = <<>> /\ ret = RetMkdir(path, calls[1].err)
        /\ ret = RetNull =>
              /\ st # <<>>
              /\ st[1].err = "OK"
              /\ st[1].uid = MyUid
              /\ st[1].mode % 64 = 0
        /\ (st # <<>> /\ st[1].err = "OK" /\ st[1].uid # MyUid) =>
              ret.kind = "owned" /\ ret.num = st[1].uid
        /\ (st # <<>> /\ st[1].err = "OK" /\ st[1].uid = MyUid /\ st[1].mode % 64 # 0) =>
              ret.kind = "perm"

\* a directory of another user was there before: mkdir said EEXIST, and the
\* check reported the uid
C2_Witness ==
    /\ pc = "ours_done"
    /\ calls[1].err = "EEXIST"
    /\ ret.kind = "owned"
    /\ ret.num = OtherUid

\* C6: make_dir_path issues mkdir on the prefixes of path from shortest to
\* longest; EEXIST counts as success; the first other failure returns the
\* error naming that prefix with no further mkdir; NULL is returned exactly
\* when no mkdir failed with an error other than EEXIST.
C6_PrefixWalk ==
    pc \in {"mdp", "mdp_done"} =>
        LET P == PrefixLens(path)
            n == Len(calls)
        IN  /\ n <= Cardinality(P)
            /\ \A k \in 1..n : calls[k].prefix = SubSeq(path, 1, Kth(P, k))
            /\ \A k \in 1..(n - 1) : Tolerated(calls[k].err)
            /\ pc = "mdp_done" =>
                  IF \E k \in 1..n : ~Tolerated(calls[k].err)
                  THEN ret = RetMkdir(calls[n].prefix, calls[n].err)
                  ELSE ret = RetNull /\ n = Cardinality(P)

\* the first prefix existed, the second mkdir failed, the third never ran
C6_Witness ==
    /\ pc = "mdp_done"
    /\ Cardinality(PrefixLens(path)) = 3
    /\ Len(calls) = 2
    /\ calls[1].err = "EEXIST"
    /\ ret.kind = "mkdir"

\* C7 as stated: after a NULL return every prefix of path is a directory,
\* whatever was there before, and a second call in a row succeeds too.
C7_AllPrefixesAreDirs ==
    (pc = "mdp_done" /\ ret = RetNull) =>
        \A n \in PrefixLens(path) : IsDir(fs, SubSeq(path, 1, n))

\* C7 amended: after a NULL return every prefix of path exists, and is a
\* directory unless it names the same entry as path and something other than
\* a directory was already there before the call (it is left as it was); a
\* second call in a row returns NULL as well and creates nothing.
C7_PrefixesExist ==
    /\ (pc = "mdp_done" /\ ret = RetNull) =>
          \A n \in PrefixLens(path) :
              LET c == Comps(SubSeq(path, 1, n))
              IN  /\ c \in DOMAIN fs
                  /\ \/ fs[c].kind = "dir"
                     \/ /\ c = Comps(path)
                        /\ c \in DOMAIN fs0
                        /\ fs0[c].kind # "dir"
                        /\ fs[c] = fs0[c]
    /\ (pc = "mdp_done" /\ round = 2) =>
          /\ ret = RetNull
          /\ \A k \in 1..Len(calls) : calls[k].err = "EEXIST"

\* a/a/a made from nothing, then made again
C7_Witness ==
    /\ pc = "mdp_done"
    /\ round = 2
    /\ fs0 = Root
    /\ Cardinality(PrefixLens(path)) = 3
    /\ IsDir(fs, path)
    /\ Len(Comps(path)) = 3

\* C8 as stated: mkdir_path returns "" whenever it creates nothing (no '/',
\* or the parent exists, and then make_dir_path is not called), and NULL only
\* after make_dir_path was called with mode 0777 and issued a mkdir.
C8_MarkerDistinguishes ==
    pc = "mp_done" =>
        /\ ret = RetNull =>
              /\ path = Folderpath(fn[1])
              /\ mode = Oct(7, 7, 7)
              /\ Len(calls) >= 1
        /\ (strrchr(fn[1]) = -1 \/ sys_access(fs0, Folderpath(fn[1]))) =>
              ret = RetEmpty /\ calls = <<>>
        /\ calls = <<>> => ret # RetNull

-----------------------------------------------------------------------------
(* Properties of the string routines, checked under SpecStr.  Positions    *)
(* are 0-based indices into str.                                           *)

Pre(s, p) == SubSeq(s, 1, p)                \* the characters before index p
Post(s, p) == SubSeq(s, p + 1, Len(s))      \* the characters from index p on

NameChars == Letters \cup Digits \cup {"_"}

\* not preceded by a backslash
Unesc(s, p) == p = 0 \/ Ch(s, p - 1) # "\\"

\* '$' at p is followed by '{' and a later '}'
Braced(s, p) ==
    Ch(s, p + 1) = "{" /\ \E k \in (p + 2)..(Len(s) - 1) : Ch(s, k) = "}"

\* the index of the first '}' after "${" at p
CloseIdx(s, p) ==
    CHOOSE k \in (p + 2)..(Len(s) - 1) :
        Ch(s, k) = "}" /\ \A m \in (p + 2)..(k - 1) : Ch(s, m) # "}"

\* '$' at p is followed by a letter or underscore (and is not a braced form)
Bare(s, p) == ~Braced(s, p) /\ Ch(s, p + 1) \in Letters \cup {"_"}

\* the index of the last character of the maximal name run after '$' at p
BareEnd(s, p) ==
    CHOOSE k \in (p + 1)..(Len(s) - 1) :
        /\ \A m \in (p + 1)..k : Ch(s, m) \in NameChars
        /\ Ch(s, k + 1) \notin NameChars

RefName(s, p) ==
    IF Braced(s, p) THEN SubSeq(s, p + 3, CloseIdx(s, p))
    ELSE SubSeq(s, p + 2, BareEnd(s, p) + 1)

RefEnd(s, p) == IF Braced(s, p) THEN CloseIdx(s, p) ELSE BareEnd(s, p)

\* the value of a name, nothing when it is unset
Value(e, name) == IF name \in DOMAIN e THEN e[name] ELSE <<>>

\* index p lies within the name of a braced reference that starts before it
InBraces(s, p) ==
    \E q \in 0..(p - 2) :
        /\ Ch(s, q) = "$"
        /\ Ch(s, q + 1) = "{"
        /\ Unesc(s, q)
        /\ \A k \in (q + 2)..(p - 1) : Ch(s, k) # "}"
        /\ \E k \in (p + 1)..(Len(s) - 1) : Ch(s, k) = "}"

\* the result is what precedes index p expanded, then mid, then what
\* follows from index q expanded
Splits(p, mid, q) ==
    result = expand_envstrings(Pre(str, p), env) \o mid
                 \o expand_envstrings(Post(str, q), env)

Idx(s) == 0..(Len(s) - 1)

\* C1 as stated: an unescaped '$' that begins no well-formed reference is
\* copied as a literal '$' and scanning resumes at the next character; "$",
\* "A$", "$1abc" and "${FOO" come back unchanged.
C1_LoneDollarCopied ==
    pc = "expanded" =>
        /\ \A p \in Idx(str) :
              (/\ Ch(str, p) = "$"
               /\ Unesc(str, p)
               /\ ~InBraces(str, p)
               /\ ~Braced(str, p)
               /\ ~Bare(str, p)) => Splits(p, <<"$">>, p + 1)
        /\ str \in { <<"$">>, <<"A", "$">>, <<"$", "1", "a", "b", "c">>,
                     <<"$", "{", "F", "O", "O">> } => result = str

\* C3 as stated: every backslash followed by '$' or '~' is dropped and the
\* character after it copied, the rest scanned from a non-escaped state; any
\* other backslash is copied literally.
C3_EveryBackslash ==
    pc = "expanded" =>
        \A p \in Idx(str) :
            Ch(str, p) = "\\" =>
                IF Ch(str, p + 1) \in {"$", "~"}
                THEN Splits(p, <<Ch(str, p + 1)>>, p + 2)
                ELSE Splits(p, <<"\\">>, p + 1)

\* C3 amended: the same, for every backslash that is not within the name of
\* a braced reference (between an unescaped "${" and its closing '}', where
\* every character belongs to the name); "\$HOME" gives "$HOME" whatever
\* the environment.
C3_BackslashOutsideBraces ==
    pc = "expanded" =>
        /\ \A p \in Idx(str) :
              (Ch(str, p) = "\\" /\ ~InBraces(str, p)) =>
                  IF Ch(str, p + 1) \in {"$", "~"}
                  THEN Splits(p, <<Ch(str, p + 1)>>, p + 2)
                  ELSE Splits(p, <<"\\">>, p + 1)
        /\ str = <<"\\", "$", "H", "O", "M", "E">> => result = <<"$", "H", "O", "M", "E">>

\* an escaped '$' in front of a name that is set: nothing was looked up
C3_Witness ==
    /\ pc = "expanded"
    /\ Len(str) >= 3
    /\ Ch(str, 1) = "\\"
    /\ Ch(str, 2) = "$"
    /\ Ch(str, 3) = "A"
    /\ <<"A">> \in DOMAIN env
    /\ result = <<Ch(str, 0), "$", "A">>

\* C4: every unescaped well-formed reference that scanning meets is replaced
\* by the value of its name, verbatim, or by nothing when the name is unset;
\* the bare name is the maximal run of letters, digits and underscores, the
\* braced name everything up to the first '}' (which is consumed).
C4_ReferenceReplaced ==
    pc = "expanded" =>
        /\ \A p \in Idx(str) :
              (/\ Ch(str, p) = "$"
               /\ Unesc(str, p)
               /\ ~InBraces(str, p)
               /\ (Braced(str, p) \/ Bare(str, p))) =>
                  Splits(p, Value(env, RefName(str, p)), RefEnd(str, p) + 1)
        /\ (str = <<"$", "H", "O", "M", "E">> /\ env = EnvPlain) => result = <<"/", "h">>
        /\ (str = <<"$", "{", "F", "O", "O", "}">>) => result = <<>>

\* a braced and a bare reference to names whose values hold '$', '~', '\'
C4_Witness ==
    /\ pc = "expanded"
    /\ env = EnvTricky
    /\ str = <<"$", "{", "A", "}">>
    /\ result = <<"~", "\\">>

\* C5 as stated: every unescaped '~' at any position is replaced by the
\* value of HOME (removed when HOME is unset), the value not rescanned.
C5_EveryTilde ==
    pc = "expanded" =>
        \A p \in Idx(str) :
            (Ch(str, p) = "~" /\ Unesc(str, p)) =>
                Splits(p, Value(env, HOME), p + 1)

\* C5 amended: the same, for every unescaped '~' that is not within the name
\* of a braced reference; with HOME=/h, "a~b~c" gives "a/hb/hc".
C5_TildeOutsideBraces ==
    pc = "expanded" =>
        /\ \A p \in Idx(str) :
              (Ch(str, p) = "~" /\ Unesc(str, p) /\ ~InBraces(str, p)) =>
                  Splits(p, Value(env, HOME), p + 1)
        /\ (str = <<"a", "~", "b", "~", "c">> /\ env = EnvPlain) =>
              result = <<"a", "/", "h", "b", "/", "h", "c">>

\* two '~' that are not at the start, HOME holding "$A"
C5_Witness ==
    /\ pc = "expanded"
    /\ env = EnvTricky
    /\ str = <<"A", "~", "1", "~">>
    /\ result = <<"A", "$", "A", "1", "$", "A">>

\* the input with a backslash put before each '$' and '~'
RECURSIVE EscapeAll(_)
EscapeAll(s) ==
    IF s = <<>> THEN <<>>
    ELSE (IF Head(s) \in {"$", "~"} THEN <<"\\", Head(s)>> ELSE <<Head(s)>>)
             \o EscapeAll(Tail(s))

\* C9 as stated: with n the length of the path and k >= 1 its number of '$'
\* and '~', every store to the n+k+1 bytes of newpath is at an index <= n+k,
\* bytes 0..n+k-1 are the escaped input, the NUL is at index n+k, and
\* expand_envstrings of the converted path is the original path.
C9_ConvertInBounds ==
    (pc = "converted" /\ dest # <<>>) =>
        LET n == Len(path)
            k == Len(EscapeAll(path)) - Len(path)
        IN  /\ Len(dest) = n + k + 1
            /\ \A w \in written : w <= n + k
            /\ SubSeq(dest, 1, n + k) = EscapeAll(path)
            /\ dest[n + k + 1] = NUL
            /\ expand_envstrings(result, env) = path

\* C10: skipnext is 0 at the end of each pass, the copy pass ends with j at
\* the length the length pass computed, and every store of the copy pass
\* (the NUL of sprintf included) is at an index <= that length, within the
\* length+1 bytes of dest.
C10_PassesAgree ==
    /\ (pc \in {"scan", "expanded"} /\ pass >= 1) =>
          /\ skip0 = 0
          /\ Len(dest) = len0 + 1
          /\ \A w \in written : w <= len0
    /\ pc = "expanded" =>
          /\ skipnext = 0
          /\ j = len0
          /\ Len(result) = len0

\* the copy pass has ended on a substituted value after an escape: the NUL
\* of sprintf went to the last byte of dest
C10_Witness ==
    /\ pc = "scan"
    /\ pass = 1
    /\ Ch(str, i) = NUL
    /\ j = len0
    /\ len0 \in written
    /\ len0 > Len(str)
    /\ \E p \in Idx(str) : Ch(str, p) = "\\" /\ Ch(str, p + 1) = "$"

====
